---- MODULE Spec2Model ----
(***************************************************************************)
(* Model of etl/extract_transform_load.py: class ETL, one instance for one *)
(* SiriusXM channel, writing the channel's history collection and the      *)
(* shared last_played collection of a MongoDB database.                    *)
(* Spec runs the cycles of one instance one after the other; SpecInstances *)
(* runs two instances over one database, store call by store call.         *)
(***************************************************************************)
EXTENDS Integers, Sequences, FiniteSets, TLC

\* ------------------------------------------------------------------ bounds
\* total of play_count over the history collection at which polling stops
MaxPlays == 3

\* --------------------------------------------------------- input domains
\* Python None, as returned by last_played_start when nothing is cached
None == "None"
\* pss_channel.channel
Channel == 5
\* the channel numbers ETL instances are made for
Channels == {Channel, Channel + 1}

\* currently_playing.start: the start times of two songs, or no start time
StartValues == {"t1", "t2", None}

\* channelMetadataResponse.metaData.{channelId, channelNumber, channelName}
Hits1 == [id |-> "hits1", number |-> Channel, name |-> "Hits 1"]
HitsOne == [id |-> "hits1", number |-> Channel, name |-> "Hits One"]

\* creativeArts entries
ArtSmall == [type |-> "IMAGE", encrypted |-> FALSE, size |-> "SMALL", url |-> "u1"]
ArtLocked == [type |-> "IMAGE", encrypted |-> TRUE, size |-> "LARGE", url |-> "u2"]
ArtText == [type |-> "TEXT", encrypted |-> FALSE, size |-> "NONE", url |-> "u3"]

\* what the source can report as on air: song "x" by "a" as first released,
\* the same song written in capitals on a re-release with other artwork
\* after the channel was renamed, and a second song
Broadcasts ==
    { [ artist |-> "a", song |-> "x", album |-> "al1",
        arts |-> <<ArtSmall, ArtLocked>>, channel |-> Hits1 ],
      [ artist |-> "A", song |-> "X", album |-> "al2",
        arts |-> <<ArtText>>, channel |-> HitsOne ],
      [ artist |-> "b", song |-> "x", album |-> "al1",
        arts |-> <<ArtSmall, ArtLocked>>, channel |-> Hits1 ] }

\* a snapshot of a successful fetch
Played(b, start) ==
    [ status |-> TRUE, start |-> start, artist_name |-> b.artist,
      song_name |-> b.song, album_name |-> b.album,
      channel |-> b.channel, creativeArts |-> b.arts ]

\* a snapshot of a failed fetch: status is False, the data is stale
Failed(start) ==
    [ status |-> FALSE, start |-> start, artist_name |-> "a", song_name |-> "x",
      album_name |-> "al1",
      channel |-> Hits1, creativeArts |-> <<ArtText>> ]

\* what the fetcher can hand to one cycle
Snapshots ==
    { Played(b, s) : b \in Broadcasts, s \in StartValues }
    \cup { Failed(s) : s \in StartValues }

\* the store calls of a cycle that can raise
StoreCalls == {"none", "find", "history", "pointer"}

\* ------------------------------------------------------------ documents
\* a Python None where a document is expected
NoDoc == [none |-> TRUE]

\* _id values: absent key, ObjectId assigned by the driver, the channel id
NoId == <<"absent", 0>>
ObjectId(n) == <<"ObjectId", n>>
\* the ObjectId of a document whose insert raised: no stored document has it
Unsent == <<"ObjectId", 0>>

VARIABLES
    database,           \* self.database is a connection (not None)
    database_write,     \* self.database_write
    last_played,        \* self.__last_played, the pointer cache
    channel_coll,       \* database[collection_name], in natural order
    last_played_coll,   \* database['last_played']
    cycle,              \* locals and store calls of the latest cycle
    pss_channel,        \* self.pss_channel.channel
    etls,               \* the other ETL objects over the database
    collections         \* the other channel collections of the database

vars == << database, database_write, last_played, channel_coll,
           last_played_coll, cycle, pss_channel, etls, collections >>

\* the _id of the instance's document in last_played
ChannelId == <<"channel", pss_channel>>

\* a collection name that is the same for every channel
collection_name_shared(channel) == <<"channel_", 0>>

\* self.collection_name = "channel_" + str(self.pss_channel.channel)
collection_name(channel) == <<"channel_", channel>>

\* --------------------------------------------------------------- helpers
Last(s) == s[Len(s)]

InSeq(x, s) == \E i \in 1..Len(s) : s[i] = x

\* a binary collation: letter case counts
Collate_exact(s) == s

\* collation {'locale': 'en', 'strength': 2}: letter case is ignored
Collate(s) ==
    CASE s = "A" -> "a"
      [] s = "X" -> "x"
      [] OTHER -> s

\* a filter that compares the names letter by letter, without the collation
Matches_exact(doc, artist_name, song_name) ==
    /\ doc.artist.name = artist_name
    /\ doc.song.name = song_name

\* existing_filter under existing_collation
Matches(doc, artist_name, song_name) ==
    /\ Collate(doc.artist.name) = Collate(artist_name)
    /\ Collate(doc.song.name) = Collate(song_name)

\* index of the first document of coll the filter selects, 0 if none
FirstMatch(coll, artist_name, song_name) ==
    IF \E i \in 1..Len(coll) : Matches(coll[i], artist_name, song_name)
    THEN CHOOSE i \in 1..Len(coll) :
            /\ Matches(coll[i], artist_name, song_name)
            /\ \A j \in 1..(i - 1) : ~Matches(coll[j], artist_name, song_name)
    ELSE 0

\* ETL.last_played_start
last_played_start ==
    IF last_played # NoDoc THEN Last(last_played.datetime) ELSE None

\* a driver that takes every fetch for a successful one
extract_always(snap) == TRUE

\* ETL.__extract: the status of the fetch
extract(snap) == snap.status

\* a change detection that compares with the oldest cached timestamp
should_process_first(start) ==
    (IF last_played # NoDoc THEN last_played.datetime[1] ELSE None) # start

\* __transform: "begin the transform", is the snapshot a change
should_process(start) == last_played_start # start

\* ETL.get_existing
get_existing(snap) ==
    IF database
    THEN LET i == FirstMatch(channel_coll, snap.artist_name, snap.song_name)
         IN IF i = 0 THEN NoDoc ELSE channel_coll[i]
    ELSE NoDoc

\* a timestamp de-dup that looks at the last entry only
append_datetime_tail(datetime, new_datetime) ==
    IF datetime = <<>> \/ new_datetime # Last(datetime)
    THEN Append(datetime, new_datetime)
    ELSE datetime

\* transform_helper: "update last played if not already in list"
append_datetime(datetime, new_datetime) ==
    IF ~InSeq(new_datetime, datetime)
    THEN Append(datetime, new_datetime)
    ELSE datetime

\* a channel de-dup that looks at the last entry only
append_channel_tail(channels, channel_data) ==
    IF channels = <<>> \/ channel_data # Last(channels)
    THEN Append(channels, channel_data)
    ELSE channels

\* transform_helper: "update channel data if not already in list"
append_channel(channels, channel_data) ==
    IF ~InSeq(channel_data, channels)
    THEN Append(channels, channel_data)
    ELSE channels

\* a counter that is set on the first play and never incremented
next_play_count_once(existing) ==
    IF existing # NoDoc THEN existing.play_count ELSE 1

\* a counter that defaults to 1 before the increment
next_play_count_from_one(existing) ==
    (IF existing # NoDoc THEN existing.play_count ELSE 1) + 1

\* transform_helper: new_transformed_data.get('play_count', 0) + 1
next_play_count(existing) ==
    (IF existing # NoDoc THEN existing.play_count ELSE 0) + 1

\* transform_helper: unencrypted images of creativeArts
RECURSIVE image_list(_)
image_list(arts) ==
    IF arts = <<>> THEN <<>>
    ELSE LET artwork == Head(arts)
         IN IF artwork.type = "IMAGE" /\ artwork.encrypted = FALSE
            THEN <<[size |-> artwork.size, url |-> artwork.url]>>
                    \o image_list(Tail(arts))
            ELSE image_list(Tail(arts))

\* transform_helper(extraction_data, existing_transformed_data)
transform_helper(data, existing) ==
    LET has == existing # NoDoc
    IN [ _id |-> IF has THEN existing._id ELSE NoId,
         album |-> [name |-> data.album_name],
         song |-> [name |-> data.song_name],
         artist |-> [name |-> data.artist_name],
         datetime |-> append_datetime(IF has THEN existing.datetime ELSE <<>>,
                                      data.start),
         channels |-> append_channel(IF has THEN existing.channels ELSE <<>>,
                                     data.channel),
         play_count |-> next_play_count(existing),
         artwork |-> image_list(data.creativeArts) ]

\* an exclusion list that forgets the artwork
IdentityKeysNoArtwork == {"_id", "album", "song", "artist"}

\* keys of new_doc that __transform leaves out of doc_updates
IdentityKeys == {"_id", "album", "song", "artist", "artwork"}

\* a delta that carries every field of new_doc but the identifier
doc_updates_all(new_doc) ==
    [ key \in (DOMAIN new_doc) \ {"_id"} |-> new_doc[key] ]

\* a delta that also leaves the channels out
doc_updates_no_channels(new_doc) ==
    [ key \in (DOMAIN new_doc) \ {"_id", "album", "song", "artist", "artwork",
                                  "channels"} |-> new_doc[key] ]

\* a delta that also leaves the play_count out
doc_updates_no_play_count(new_doc) ==
    [ key \in (DOMAIN new_doc) \ {"_id", "album", "song", "artist", "artwork",
                                  "play_count"} |-> new_doc[key] ]

\* __transform: doc_updates built from new_doc
doc_updates_of(new_doc) ==
    [ key \in (DOMAIN new_doc) \ IdentityKeys |-> new_doc[key] ]

\* update {'$set': updates} applied to one document
SetFields(doc, updates) ==
    [ key \in DOMAIN doc |->
        IF key \in DOMAIN updates THEN updates[key] ELSE doc[key] ]

\* collection.update_one(existing_filter, {'$set': doc_updates}, collation)
update_one(coll, artist_name, song_name, updates) ==
    LET i == FirstMatch(coll, artist_name, song_name)
    IN IF i = 0 THEN coll
       ELSE [coll EXCEPT ![i] = SetFields(coll[i], updates)]

\* collection.insert_one(new_doc)
insert_one(coll, doc) == Append(coll, doc)

\* a filter on _id that selects no document
FirstId_unmatched(coll, id) == 0

\* index of the first document of coll with this _id, 0 if none
FirstId(coll, id) ==
    IF \E i \in 1..Len(coll) : coll[i]._id = id
    THEN CHOOSE i \in 1..Len(coll) :
            /\ coll[i]._id = id
            /\ \A j \in 1..(i - 1) : coll[j]._id # id
    ELSE 0

\* collection.find_one({'_id': id})
find_one(coll, id) ==
    IF FirstId(coll, id) = 0 THEN NoDoc ELSE coll[FirstId(coll, id)]

\* a pointer write that inserts instead of replacing
replace_one_insert(coll, id, doc) == Append(coll, doc)

\* collection.replace_one({'_id': id}, doc, upsert=True)
replace_one(coll, id, doc) ==
    IF FirstId(coll, id) = 0
    THEN Append(coll, doc)
    ELSE [coll EXCEPT ![FirstId(coll, id)] = doc]

\* sum of play_count over a collection
RECURSIVE Plays(_)
Plays(coll) ==
    IF coll = <<>> THEN 0 ELSE Head(coll).play_count + Plays(Tail(coll))

\* the locals of a cycle that ended before get_existing returned; start is
\* currently_playing.start where the cycle has read it, None where not
NoCycle(path, raised, status, start) ==
    [ path |-> path, raised |-> raised, status |-> status, start |-> start,
      data |-> NoDoc, existing_doc |-> NoDoc, new_doc |-> NoDoc,
      doc_updates |-> NoDoc, ops |-> <<>> ]

\* the locals of a cycle that reached __load, and the store calls it completed
Loaded(snap, existing_doc, new_doc, doc_updates, raised, ops) ==
    [ path |-> IF doc_updates # NoDoc THEN "update" ELSE "insert",
      raised |-> raised, status |-> snap.status, start |-> snap.start,
      data |-> snap, existing_doc |-> existing_doc, new_doc |-> new_doc,
      doc_updates |-> doc_updates, ops |-> ops ]

\* ------------------------------------------------------------- the state
\* ETL(pss_channel), ETL(pss_channel, db, False), ETL(pss_channel, db)
Configs ==
    { [database |-> FALSE, database_write |-> TRUE],
      [database |-> TRUE, database_write |-> FALSE],
      [database |-> TRUE, database_write |-> TRUE] }

Init ==
    /\ \E conf \in Configs :
          /\ database = conf.database
          /\ database_write = conf.database_write
    /\ last_played = NoDoc
    /\ channel_coll = <<>>
    /\ last_played_coll = <<>>
    /\ cycle = NoCycle("init", "none", FALSE, None)
    /\ pss_channel = Channel
    /\ etls = <<>>
    /\ collections = [name \in { collection_name(c) : c \in Channels } |-> <<>>]

\* ETL.__init__ over the store as it is: a restart of the channel's pipeline
Construct(db, write) ==
    /\ database' = db
    /\ database_write' = write
    /\ last_played' = IF db THEN find_one(last_played_coll, ChannelId) ELSE NoDoc
    /\ cycle' = NoCycle("init", "none", FALSE, None)
    /\ UNCHANGED << channel_coll, last_played_coll >>
    /\ UNCHANGED << pss_channel, etls, collections >>

\* a load that writes the pointer document for new songs only
Load_pointer_on_insert(snap, existing_doc, new_doc, doc_updates, fault) ==
    LET persist == database /\ database_write
        is_update == doc_updates # NoDoc
        written == IF is_update THEN new_doc
                   ELSE [new_doc EXCEPT !._id = ObjectId(Len(channel_coll) + 1)]
        unsent == IF is_update THEN new_doc
                  ELSE [new_doc EXCEPT !._id = Unsent]
        pointer == [written EXCEPT !._id = ChannelId]
    IN IF ~persist
       THEN /\ fault = "none"
            /\ last_played' = new_doc
            /\ cycle' = Loaded(snap, existing_doc, new_doc, doc_updates,
                               "none", <<>>)
            /\ UNCHANGED << channel_coll, last_played_coll >>
       ELSE IF fault = "history"
       THEN /\ last_played' = unsent
            /\ cycle' = Loaded(snap, existing_doc, new_doc, doc_updates,
                               "history", <<>>)
            /\ UNCHANGED << channel_coll, last_played_coll >>
       ELSE IF is_update
       THEN /\ fault = "none"
            /\ channel_coll' = update_one(channel_coll, snap.artist_name,
                                          snap.song_name, doc_updates)
            /\ last_played' = new_doc
            /\ cycle' = Loaded(snap, existing_doc, new_doc, doc_updates,
                               "none", <<"update_one">>)
            /\ UNCHANGED last_played_coll
       ELSE /\ fault \in {"pointer", "none"}
            /\ channel_coll' = insert_one(channel_coll, written)
            /\ last_played' = pointer
            /\ last_played_coll' =
                 IF fault = "none"
                 THEN replace_one(last_played_coll, ChannelId, pointer)
                 ELSE last_played_coll
            /\ cycle' = Loaded(snap, existing_doc, new_doc, doc_updates, fault,
                               IF fault = "none"
                               THEN <<"insert_one", "replace_one">>
                               ELSE <<"insert_one">>)

\* a load that caches the merged record last, after the store calls returned
Load_cache_last(snap, existing_doc, new_doc, doc_updates, fault) ==
    LET persist == database /\ database_write
        is_update == doc_updates # NoDoc
        written == IF is_update THEN new_doc
                   ELSE [new_doc EXCEPT !._id = ObjectId(Len(channel_coll) + 1)]
        pointer == [written EXCEPT !._id = ChannelId]
        history_op == IF is_update THEN "update_one" ELSE "insert_one"
    IN IF ~persist
       THEN /\ fault = "none"
            /\ cycle' = Loaded(snap, existing_doc, new_doc, doc_updates,
                               "none", <<>>)
            /\ UNCHANGED << last_played, channel_coll, last_played_coll >>
       ELSE IF fault = "history"
       THEN /\ cycle' = Loaded(snap, existing_doc, new_doc, doc_updates,
                               "history", <<>>)
            /\ UNCHANGED << last_played, channel_coll, last_played_coll >>
       ELSE /\ fault \in {"pointer", "none"}
            /\ channel_coll' =
                 IF is_update
                 THEN update_one(channel_coll, snap.artist_name,
                                 snap.song_name, doc_updates)
                 ELSE insert_one(channel_coll, written)
            /\ last_played' = IF fault = "none" THEN pointer ELSE last_played
            /\ last_played_coll' =
                 IF fault = "none"
                 THEN replace_one(last_played_coll, ChannelId, pointer)
                 ELSE last_played_coll
            /\ cycle' = Loaded(snap, existing_doc, new_doc, doc_updates, fault,
                               IF fault = "none"
                               THEN <<history_op, "replace_one">>
                               ELSE <<history_op>>)

\* ETL.__load(new_doc, doc_updates), fault names the store call that raises
Load(snap, existing_doc, new_doc, doc_updates, fault) ==
    LET persist == database /\ database_write
        is_update == doc_updates # NoDoc
        \* insert_one gives new_doc its _id before the document is sent
        written == IF is_update THEN new_doc
                   ELSE [new_doc EXCEPT !._id = ObjectId(Len(channel_coll) + 1)]
        unsent == IF is_update THEN new_doc
                  ELSE [new_doc EXCEPT !._id = Unsent]
        pointer == [written EXCEPT !._id = ChannelId]
        history_op == IF is_update THEN "update_one" ELSE "insert_one"
    IN IF ~persist
       THEN /\ fault = "none"
            /\ last_played' = new_doc
            /\ cycle' = Loaded(snap, existing_doc, new_doc, doc_updates,
                               "none", <<>>)
            /\ UNCHANGED << channel_coll, last_played_coll >>
       ELSE IF fault = "history"
       THEN \* __last_played is new_doc itself: it sees insert_one's _id
            /\ last_played' = unsent
            /\ cycle' = Loaded(snap, existing_doc, new_doc, doc_updates,
                               "history", <<>>)
            /\ UNCHANGED << channel_coll, last_played_coll >>
       ELSE /\ fault \in {"pointer", "none"}
            /\ channel_coll' =
                 IF is_update
                 THEN update_one(channel_coll, snap.artist_name,
                                 snap.song_name, doc_updates)
                 ELSE insert_one(channel_coll, written)
            \* new_doc['_id'] = channel also changes the cached object
            /\ last_played' = pointer
            /\ last_played_coll' =
                 IF fault = "none"
                 THEN replace_one(last_played_coll, ChannelId, pointer)
                 ELSE last_played_coll
            /\ cycle' = Loaded(snap, existing_doc, new_doc, doc_updates, fault,
                               IF fault = "none"
                               THEN <<history_op, "replace_one">>
                               ELSE <<history_op>>)

\* ETL.extract_transform_load: one poll cycle for snapshot snap
extract_transform_load(snap, fault) ==
    /\ Plays(channel_coll) < MaxPlays
    /\ UNCHANGED << database, database_write >>
    /\ UNCHANGED << pss_channel, etls, collections >>
    /\ IF ~extract(snap)
       THEN \* log.error
            /\ fault = "none"
            /\ cycle' = NoCycle("error", "none", snap.status, None)
            /\ UNCHANGED << last_played, channel_coll, last_played_coll >>
       ELSE IF ~should_process(snap.start)
       THEN \* "its the same song, no new doc/no updates"
            /\ fault = "none"
            /\ cycle' = NoCycle("skip", "none", snap.status, snap.start)
            /\ UNCHANGED << last_played, channel_coll, last_played_coll >>
       ELSE IF fault = "find"
       THEN \* the find of get_existing raises out of __transform
            /\ database
            /\ cycle' = NoCycle("raise", "find", snap.status, snap.start)
            /\ UNCHANGED << last_played, channel_coll, last_played_coll >>
       ELSE LET existing_doc == get_existing(snap)
                new_doc == transform_helper(snap, existing_doc)
                doc_updates == IF existing_doc # NoDoc
                               THEN doc_updates_of(new_doc)
                               ELSE NoDoc
            IN Load(snap, existing_doc, new_doc, doc_updates, fault)

Next ==
    \/ \E conf \in Configs : Construct(conf.database, conf.database_write)
    \/ \E snap \in Snapshots, fault \in StoreCalls :
            extract_transform_load(snap, fault)

Spec == Init /\ [][Next]_vars

\* ------------------------------------------------- two instances, one store
\* what the fetcher hands to the cycles of two instances: every broadcast at
\* one of two start times, or a failed fetch
Replays ==
    { Played(b, s) : b \in Broadcasts, s \in {"t1", "t2"} }
    \cup { Failed("t1") }

\* sum of play_count over the channel collections of the database
TotalPlays ==
    LET names == DOMAIN collections
        RECURSIVE Sum(_)
        Sum(S) == IF S = {} THEN 0
                  ELSE LET n == CHOOSE m \in S : TRUE
                       IN Plays(collections[n]) + Sum(S \ {n})
    IN Plays(channel_coll) + Sum(names)

\* the locals of a cycle whose get_existing has returned
Found(snap, existing_doc) ==
    [ path |-> "found", raised |-> "none", status |-> snap.status,
      start |-> snap.start, data |-> snap, existing_doc |-> existing_doc,
      new_doc |-> NoDoc, doc_updates |-> NoDoc, ops |-> <<>> ]

\* the cycle is between two of its store calls
MidCycle(c) == c.path \in {"found", "written"}

\* a new ETL object for a channel, before its first cycle
NewETL(channel) ==
    [ pss_channel |-> channel, database |-> TRUE, database_write |-> TRUE,
      last_played |-> NoDoc, cycle |-> NoCycle("init", "none", FALSE, None) ]

\* two instances with persistence over an empty database: the second one for
\* the same channel or for another one
InitInstances ==
    /\ database = TRUE
    /\ database_write = TRUE
    /\ last_played = NoDoc
    /\ channel_coll = <<>>
    /\ last_played_coll = <<>>
    /\ cycle = NoCycle("init", "none", FALSE, None)
    /\ pss_channel = Channel
    /\ \E c \in Channels : etls = << NewETL(c) >>
    /\ collections = [name \in { collection_name(c) : c \in Channels } |-> <<>>]

\* extract_transform_load up to the return of get_existing: the fetch, the
\* change detection and the find
StartCycle(snap) ==
    /\ ~MidCycle(cycle)
    /\ TotalPlays < MaxPlays
    /\ cycle' = IF ~extract(snap)
                THEN NoCycle("error", "none", snap.status, None)
                ELSE IF ~should_process(snap.start)
                THEN NoCycle("skip", "none", snap.status, snap.start)
                ELSE Found(snap, get_existing(snap))
    /\ UNCHANGED << database, database_write, last_played, channel_coll,
                    last_played_coll, pss_channel, etls, collections >>

\* the merge of __transform and __load up to the return of the history write
WriteHistory ==
    /\ cycle.path = "found"
    /\ LET snap == cycle.data
           existing_doc == cycle.existing_doc
           new_doc == transform_helper(snap, existing_doc)
           doc_updates == IF existing_doc # NoDoc
                          THEN doc_updates_of(new_doc)
                          ELSE NoDoc
           is_update == doc_updates # NoDoc
           written == IF is_update THEN new_doc
                      ELSE [new_doc EXCEPT
                              !._id = ObjectId(Len(channel_coll) + 1)]
       IN IF ~(database /\ database_write)
          THEN /\ last_played' = new_doc
               /\ cycle' = Loaded(snap, existing_doc, new_doc, doc_updates,
                                  "none", <<>>)
               /\ UNCHANGED channel_coll
          ELSE /\ last_played' = written
               /\ channel_coll' =
                    IF is_update
                    THEN update_one(channel_coll, snap.artist_name,
                                    snap.song_name, doc_updates)
                    ELSE insert_one(channel_coll, written)
               /\ cycle' = [ Loaded(snap, existing_doc, new_doc, doc_updates,
                                    "none",
                                    << IF is_update THEN "update_one"
                                       ELSE "insert_one" >>)
                             EXCEPT !.path = "written" ]
    /\ UNCHANGED << database, database_write, last_played_coll, pss_channel,
                    etls, collections >>

\* the rest of __load: the _id of the pointer and the upsert
WritePointer ==
    /\ cycle.path = "written"
    /\ LET pointer == [last_played EXCEPT !._id = ChannelId]
       IN /\ last_played' = pointer
          /\ last_played_coll' = replace_one(last_played_coll, ChannelId, pointer)
          /\ cycle' = Loaded(cycle.data, cycle.existing_doc, cycle.new_doc,
                             cycle.doc_updates, "none",
                             Append(cycle.ops, "replace_one"))
    /\ UNCHANGED << database, database_write, channel_coll, pss_channel,
                    etls, collections >>

\* the next call is made on the k-th other ETL object: its fields and its
\* channel collection take the place of those of the one that ran
Switch(k) ==
    LET self == [ pss_channel |-> pss_channel, database |-> database,
                  database_write |-> database_write,
                  last_played |-> last_played, cycle |-> cycle ]
        other == etls[k]
        kept == [collections EXCEPT ![collection_name(pss_channel)] = channel_coll]
    IN /\ etls' = [etls EXCEPT ![k] = self]
       /\ pss_channel' = other.pss_channel
       /\ database' = other.database
       /\ database_write' = other.database_write
       /\ last_played' = other.last_played
       /\ cycle' = other.cycle
       /\ channel_coll' = kept[collection_name(other.pss_channel)]
       /\ collections' = [kept EXCEPT ![collection_name(other.pss_channel)] = <<>>]
       /\ UNCHANGED last_played_coll

NextInstances ==
    \/ \E snap \in Replays : StartCycle(snap)
    \/ WriteHistory
    \/ WritePointer
    \/ \E k \in 1..Len(etls) : Switch(k)

SpecInstances == InitInstances /\ [][NextInstances]_vars

\* ------------------------------------------------------------ properties
\* the latest step was a cycle that went through __transform and __load
Processed(c) == c.path \in {"insert", "update"}

\* persistence is enabled for the instance
Persist == database /\ database_write

\* the load of the latest cycle wrote the history and the pointer
LoadCompleted == Processed(cycle) /\ Persist /\ cycle.raised = "none"

\* every entry of the datetime of a document is a start time, none is None
Timed(doc) == \A i \in 1..Len(doc.datetime) : doc.datetime[i] # None

NoDuplicates(s) == \A i, j \in 1..Len(s) : s[i] = s[j] => i = j

\* the documents of last_played_coll that are the channel's pointer
PointerIndexes ==
    { i \in 1..Len(last_played_coll) : last_played_coll[i]._id = ChannelId }

\* the pointer document of the channel, when there is exactly one
PointerDoc == last_played_coll[CHOOSE i \in PointerIndexes : TRUE]

\* the history record the snapshot of the latest cycle belongs to
WrittenRecord ==
    channel_coll[CHOOSE i \in 1..Len(channel_coll) :
        /\ Matches(channel_coll[i], cycle.data.artist_name, cycle.data.song_name)
        /\ \A j \in 1..(i - 1) :
             ~Matches(channel_coll[j], cycle.data.artist_name,
                      cycle.data.song_name)]

\* C1: a cycle whose fetch succeeded and whose snapshot start equals the last
\* element of the cached pointer's datetime is skipped: it completes no store
\* call and leaves the history, the pointer collection and the pointer cache
\* as they were.
C1_IdempotentSkip ==
    [][ ( /\ cycle'.path # "init"
          /\ cycle'.status
          /\ last_played # NoDoc
          /\ Last(last_played.datetime) = cycle'.start )
        => ( /\ cycle'.path = "skip"
             /\ cycle'.ops = <<>>
             /\ UNCHANGED << last_played, channel_coll, last_played_coll >> )
      ]_vars

\* a skipped cycle over a pointer cache that holds a played song
C1_Witness ==
    /\ cycle.path = "skip"
    /\ last_played # NoDoc
    /\ cycle.start = Last(last_played.datetime)
    /\ channel_coll # <<>>

C3_NewSongInsert ==
    [][ ( /\ Processed(cycle')
          /\ \A i \in 1..Len(channel_coll) :
                ~Matches(channel_coll[i], cycle'.data.artist_name,
                         cycle'.data.song_name) )
        => ( /\ cycle'.path = "insert"
             /\ cycle'.doc_updates = NoDoc
             /\ cycle'.new_doc.play_count = 1
             /\ cycle'.new_doc.datetime = <<cycle'.start>>
             /\ cycle'.new_doc.channels = <<cycle'.data.channel>>
             /\ cycle'.ops # <<>> =>
                  /\ cycle'.ops[1] = "insert_one"
                  /\ Len(channel_coll') = Len(channel_coll) + 1
                  /\ \A i \in 1..Len(channel_coll) :
                        channel_coll'[i] = channel_coll[i]
                  /\ Last(channel_coll').play_count = 1
                  /\ Last(channel_coll').datetime = <<cycle'.start>>
                  /\ Last(channel_coll').channels = <<cycle'.data.channel>>
                  /\ Last(channel_coll').artist.name = cycle'.data.artist_name
                  /\ Last(channel_coll').song.name = cycle'.data.song_name )
      ]_vars

\* a second song inserted next to the first one
C3_Witness ==
    /\ cycle.path = "insert"
    /\ cycle.ops = <<"insert_one", "replace_one">>
    /\ Len(channel_coll) = 2

\* C4: a processed snapshot that matches an existing history record with
\* play_count k takes the update path; the merged record has play_count
\* k + 1, the update delta has exactly the keys datetime, channels and
\* play_count (none of album, song, artist, artwork, _id), and when the load
\* writes, one update leaves the stored record with play_count k + 1.
C4_RepeatSongUpdate ==
    [][ ( /\ Processed(cycle')
          /\ database
          /\ \E i \in 1..Len(channel_coll) :
                Matches(channel_coll[i], cycle'.data.artist_name,
                        cycle'.data.song_name) )
        => LET i == CHOOSE n \in 1..Len(channel_coll) :
                      /\ Matches(channel_coll[n], cycle'.data.artist_name,
                                 cycle'.data.song_name)
                      /\ \A j \in 1..(n - 1) :
                            ~Matches(channel_coll[j], cycle'.data.artist_name,
                                     cycle'.data.song_name)
               k == channel_coll[i].play_count
           IN /\ cycle'.path = "update"
              /\ cycle'.existing_doc = channel_coll[i]
              /\ DOMAIN cycle'.doc_updates
                    = {"datetime", "channels", "play_count"}
              /\ cycle'.new_doc.play_count = k + 1
              /\ cycle'.doc_updates.play_count = k + 1
              /\ cycle'.ops # <<>> =>
                   /\ cycle'.ops[1] = "update_one"
                   /\ Len(channel_coll') = Len(channel_coll)
                   /\ channel_coll'[i].play_count = k + 1
      ]_vars

\* a stored record that two updates brought to play_count 3
C4_Witness ==
    /\ cycle.path = "update"
    /\ cycle.ops = <<"update_one", "replace_one">>
    /\ cycle.existing_doc.play_count = 2
    /\ WrittenRecord.play_count = 3

\* C5: after every load that completes with persistence enabled, the
\* last_played collection holds exactly one document with _id = channel, and
\* it is the merged record with its _id set to the channel id, on the insert
\* path and on the update path.
C5_PointerAlwaysReplaced ==
    LoadCompleted =>
        /\ Cardinality(PointerIndexes) = 1
        /\ PointerDoc = [cycle.new_doc EXCEPT !._id = ChannelId]

\* an update whose load replaced the pointer an earlier insert had created
C5_Witness ==
    /\ LoadCompleted
    /\ cycle.path = "update"
    /\ Len(channel_coll) = 2
    /\ cycle.new_doc._id # ChannelId

\* C6 as stated: after every completed load the pointer document agrees with
\* the history record just written on every field other than _id (stated
\* for records whose start times are all set).
C6_PointerIsFullCopy ==
    (LoadCompleted /\ Timed(cycle.new_doc)) =>
        \A key \in {"album", "song", "artist", "artwork", "datetime",
                    "channels", "play_count"} :
            PointerDoc[key] = WrittenRecord[key]

\* C6 as amended: after every completed load the pointer document agrees with
\* the history record just written on datetime, channels and play_count, and
\* on artist.name and song.name up to letter case; its album, song, artist
\* and artwork are those of the snapshot, so on the insert path it agrees on
\* every field other than _id, and on the update path these four may differ
\* from the values the record was inserted with.
C6_PointerCopiesMergedFields ==
    LoadCompleted =>
        /\ Cardinality(PointerIndexes) = 1
        /\ \A key \in {"datetime", "channels", "play_count"} :
                PointerDoc[key] = WrittenRecord[key]
        /\ Collate(PointerDoc.artist.name) = Collate(WrittenRecord.artist.name)
        /\ Collate(PointerDoc.song.name) = Collate(WrittenRecord.song.name)
        /\ PointerDoc.album.name = cycle.data.album_name
        /\ PointerDoc.song.name = cycle.data.song_name
        /\ PointerDoc.artist.name = cycle.data.artist_name
        /\ PointerDoc.artwork = image_list(cycle.data.creativeArts)
        /\ cycle.path = "insert" =>
                \A key \in {"album", "song", "artist", "artwork"} :
                    PointerDoc[key] = WrittenRecord[key]

\* an update by a snapshot of the same song in other letters, album and art
C6_Witness ==
    /\ LoadCompleted
    /\ Timed(cycle.new_doc)
    /\ cycle.path = "update"
    /\ PointerDoc.album # WrittenRecord.album
    /\ PointerDoc.artist # WrittenRecord.artist
    /\ PointerDoc.artwork # WrittenRecord.artwork
    /\ Len(WrittenRecord.channels) = 2

\* C7: no step changes the _id, album, song, artist or artwork of a stored
\* history record, or removes a record: an update changes only datetime,
\* channels and play_count.
C7_IdentityWriteOnce ==
    [][ /\ Len(channel_coll') >= Len(channel_coll)
        /\ \A i \in 1..Len(channel_coll) :
              \A key \in {"_id", "album", "song", "artist", "artwork"} :
                  channel_coll'[i][key] = channel_coll[i][key]
      ]_vars

\* a stored record updated by a snapshot with another album and artwork
C7_Witness ==
    /\ cycle.path = "update"
    /\ cycle.ops # <<>>
    /\ cycle.new_doc.album # cycle.existing_doc.album
    /\ cycle.new_doc.artwork # cycle.existing_doc.artwork
    /\ WrittenRecord.play_count = cycle.new_doc.play_count

\* C8: a cycle whose fetch succeeded is skipped if and only if a pointer is
\* cached and the last element of its datetime equals the snapshot start;
\* with an empty pointer cache every fetched snapshot is processed, whatever
\* its start.
C8_SkipIffPointerTailEqualsStart ==
    [][ ( cycle'.path # "init" /\ cycle'.status )
        => ( cycle'.path = "skip"
               <=> ( /\ last_played # NoDoc
                     /\ Last(last_played.datetime) = cycle'.start ) )
      ]_vars

\* C9: the channels of every history record, of every pointer document and
\* of the pointer cache hold no triple twice; a merge of a snapshot whose
\* triple occurs anywhere in channels leaves channels as it was, any other
\* merge appends the triple at the end and keeps the order before it.
C9_ChannelDedup ==
    /\ \A i \in 1..Len(channel_coll) : NoDuplicates(channel_coll[i].channels)
    /\ \A i \in 1..Len(last_played_coll) :
            NoDuplicates(last_played_coll[i].channels)
    /\ last_played # NoDoc => NoDuplicates(last_played.channels)
    /\ Processed(cycle) =>
        LET old == IF cycle.existing_doc = NoDoc THEN <<>>
                   ELSE cycle.existing_doc.channels
            new == cycle.new_doc.channels
        IN /\ (\E i \in 1..Len(old) : old[i] = cycle.data.channel) => new = old
           /\ (\A i \in 1..Len(old) : old[i] # cycle.data.channel)
                => new = old \o <<cycle.data.channel>>

\* a merge of the triple a record of two channels holds first
C9_Witness ==
    /\ cycle.path = "update"
    /\ cycle.ops # <<>>
    /\ Len(cycle.existing_doc.channels) = 2
    /\ cycle.data.channel = cycle.existing_doc.channels[1]

\* C10: a cycle whose fetch failed ends without change detection, matching or
\* merging; it completes no store call and leaves the history, the pointer
\* collection and the pointer cache as they were.
C10_FetchFailure ==
    [][ ( cycle'.path # "init" /\ ~cycle'.status )
        => ( /\ cycle'.path = "error"
             /\ cycle'.existing_doc = NoDoc
             /\ cycle'.new_doc = NoDoc
             /\ cycle'.ops = <<>>
             /\ UNCHANGED << last_played, channel_coll, last_played_coll >> )
      ]_vars

\* a failed fetch of an instance that persists and has a song cached
C10_Witness ==
    /\ cycle.path = "error"
    /\ Persist
    /\ last_played # NoDoc
    /\ channel_coll # <<>>

\* C11: every processed cycle leaves the pointer cache holding the merged
\* record (every field of it; only the _id may be the one a store call gave
\* the same object), also when persistence is disabled and when the history
\* write or the pointer upsert raised, in which case the stores are as far as
\* the calls before the raise took them; and while persistence is disabled
\* no cycle completes a store call or changes a collection.
C11_CacheUpdatedFirst ==
    [][ /\ Processed(cycle') =>
            /\ DOMAIN last_played' = DOMAIN cycle'.new_doc
            /\ \A key \in (DOMAIN cycle'.new_doc) \ {"_id"} :
                    last_played'[key] = cycle'.new_doc[key]
            /\ ~Persist => last_played' = cycle'.new_doc
            /\ cycle'.raised = "history" =>
                    UNCHANGED << channel_coll, last_played_coll >>
            /\ cycle'.raised = "pointer" => UNCHANGED last_played_coll
        /\ (~Persist /\ cycle'.path # "init") =>
            /\ cycle'.ops = <<>>
            /\ UNCHANGED << channel_coll, last_played_coll >>
      ]_vars

\* an update whose history write raised: the cache is ahead of the record
C11_Witness ==
    /\ cycle.path = "update"
    /\ cycle.raised = "history"
    /\ last_played.play_count = cycle.new_doc.play_count
    /\ last_played.datetime = cycle.new_doc.datetime
    /\ WrittenRecord.play_count < last_played.play_count

FoldCase(s) == IF s = "A" THEN "a" ELSE IF s = "X" THEN "x" ELSE s

\* the stored history records whose artist and song are those of the
\* snapshot up to letter case
SameSong(coll, data) ==
    { i \in 1..Len(coll) :
        /\ FoldCase(coll[i].artist.name) = FoldCase(data.artist_name)
        /\ FoldCase(coll[i].song.name) = FoldCase(data.song_name) }

\* C13: a processed snapshot of an instance with a database whose artist and
\* song equal those of a stored history record up to letter case is matched
\* to the first such record and takes the update path: no record is added,
\* and when the update is written the record that changes is the record that
\* was found and no other; a snapshot with no such record gets an absent
\* result without an error and takes the insert path.
C13_CaseInsensitiveMatch ==
    [][ ( Processed(cycle') /\ database ) =>
          LET hits == SameSong(channel_coll, cycle'.data)
              i == CHOOSE n \in hits : \A m \in hits : n <= m
          IN /\ hits # {} =>
                  /\ cycle'.path = "update"
                  /\ cycle'.existing_doc = channel_coll[i]
                  /\ Len(channel_coll') = Len(channel_coll)
                  /\ \A j \in 1..Len(channel_coll) :
                        j # i => channel_coll'[j] = channel_coll[j]
                  /\ cycle'.ops # <<>> =>
                        /\ cycle'.ops[1] = "update_one"
                        /\ channel_coll'[i] # channel_coll[i]
                        /\ channel_coll'[i]._id = cycle'.existing_doc._id
                        /\ channel_coll'[i].play_count
                              = cycle'.new_doc.play_count
             /\ hits = {} =>
                  /\ cycle'.path = "insert"
                  /\ cycle'.existing_doc = NoDoc
                  /\ cycle'.raised # "find"
                  /\ cycle'.ops # <<>> => cycle'.ops[1] = "insert_one"
      ]_vars

\* the second record of the collection updated by a snapshot that writes
\* its artist and song in other letters
C13_Witness ==
    /\ cycle.path = "update"
    /\ cycle.ops # <<>>
    /\ Len(channel_coll) = 2
    /\ cycle.data.artist_name # cycle.existing_doc.artist.name
    /\ cycle.data.song_name # cycle.existing_doc.song.name
    /\ cycle.existing_doc._id = channel_coll[2]._id
    /\ channel_coll[2].play_count = cycle.new_doc.play_count

\* C16: a restart with a database right after a completed load initialises
\* the pointer cache from the pointer document of the channel, and the last
\* element of the cached datetime is then the start of the last loaded
\* snapshot, so that a first poll that returns this snapshot again is
\* skipped (stated for snapshots and records whose start times are all set).
C16_ResumeSkipsLastLoaded ==
    [][ ( /\ LoadCompleted /\ cycle.start # None /\ Timed(cycle.new_doc)
          /\ cycle'.path = "init" /\ database' )
        => ( /\ last_played' = PointerDoc
             /\ Last(last_played'.datetime) = cycle.start )
      ]_vars

\* C18: after every processed cycle the last element of the datetime of the
\* pointer cache is the start of the snapshot processed, whatever the matched
\* record held, so that the next cycle is skipped when it fetches the same
\* snapshot (stated for snapshots and records whose start times are all set).
C18_CacheTailIsStart ==
    ( Processed(cycle) /\ cycle.start # None /\ Timed(last_played) )
        => Last(last_played.datetime) = cycle.start

\* C17: the store calls a cycle completes are the ones of a load, in one
\* order. A cycle whose fetch failed or that was skipped completes none and
\* leaves both collections as they were. A processed cycle of an instance
\* with persistence enabled in which no call raised completes exactly one
\* history write, insert_one when no stored record has the artist and song of
\* the snapshot up to letter case and update_one otherwise, and then exactly
\* one replace_one of the pointer document; a call that raises ends the
\* cycle, so the calls completed are always a prefix of these two, and the
\* collections change exactly as far as the calls went.
C17_WritesOnlyWhenLoaded ==
    [][ cycle'.path # "init" =>
          LET history_op == IF SameSong(channel_coll, cycle'.data) = {}
                            THEN "insert_one" ELSE "update_one"
              ops == cycle'.ops
          IN /\ cycle'.path \in {"error", "skip", "raise"} => ops = <<>>
             /\ ops # <<>> =>
                    Processed(cycle') /\ cycle'.status /\ Persist
             /\ ( Processed(cycle') /\ Persist /\ cycle'.raised = "none" )
                    => ops = << history_op, "replace_one" >>
             /\ ( Processed(cycle') /\ cycle'.raised = "pointer" )
                    => ops = << history_op >>
             /\ ( Processed(cycle') /\ cycle'.raised = "history" ) => ops = <<>>
             /\ ops = <<>> => UNCHANGED << channel_coll, last_played_coll >>
             /\ Len(ops) >= 1 =>
                    /\ channel_coll' # channel_coll
                    /\ Len(channel_coll') = Len(channel_coll)
                          + (IF history_op = "insert_one" THEN 1 ELSE 0)
             /\ Len(ops) = 1 => UNCHANGED last_played_coll
             /\ Len(ops) = 2 =>
                    /\ Cardinality(PointerIndexes') = 1
                    /\ PointerDoc'.datetime = cycle'.new_doc.datetime
                    /\ PointerDoc'.play_count = cycle'.new_doc.play_count
      ]_vars

\* an update followed by the pointer write, in a collection of two records
C17_Witness ==
    /\ cycle.ops = << "update_one", "replace_one" >>
    /\ cycle.status
    /\ Persist
    /\ Len(channel_coll) = 2
    /\ PointerDoc.play_count = 2

\* C19: the history collection never holds two records whose artist and
\* song are equal up to letter case; a step that adds a record adds one, for
\* a snapshot no stored record had the artist and song of, and a step that
\* changes a stored record changes exactly one and leaves the others of the
\* collection as they were.
C19_OneRecordPerSong ==
    [][ /\ \A i, j \in 1..Len(channel_coll') :
              ( /\ FoldCase(channel_coll'[i].artist.name)
                      = FoldCase(channel_coll'[j].artist.name)
                /\ FoldCase(channel_coll'[i].song.name)
                      = FoldCase(channel_coll'[j].song.name) ) => i = j
        /\ Len(channel_coll') > Len(channel_coll) =>
              /\ Len(channel_coll') = Len(channel_coll) + 1
              /\ cycle'.path = "insert"
              /\ SameSong(channel_coll, cycle'.data) = {}
              /\ SameSong(channel_coll', cycle'.data) = {Len(channel_coll')}
              /\ \A i \in 1..Len(channel_coll) :
                    channel_coll'[i] = channel_coll[i]
        /\ Len(channel_coll') <= Len(channel_coll) =>
              /\ Len(channel_coll') = Len(channel_coll)
              /\ Cardinality({ i \in 1..Len(channel_coll) :
                                 channel_coll'[i] # channel_coll[i] }) <= 1
              /\ channel_coll' # channel_coll =>
                    /\ cycle'.path = "update"
                    /\ { i \in 1..Len(channel_coll) :
                            channel_coll'[i] # channel_coll[i] }
                          = SameSong(channel_coll, cycle'.data)
      ]_vars

\* two songs stored, the first one updated while the second stayed
C19_Witness ==
    /\ Len(channel_coll) = 2
    /\ cycle.path = "update"
    /\ cycle.ops # <<>>
    /\ cycle.existing_doc._id = channel_coll[1]._id
    /\ channel_coll[1].play_count = 2
    /\ channel_coll[2].play_count = 1
    /\ channel_coll[1].artist.name = "a"
    /\ cycle.data.artist_name = "A"

\* C20: every stored history record has 1 <= Len(datetime) <= play_count. A
\* merge into a matched record gives the merged record the play_count of the
\* matched record plus one; a record is stored with play_count 1, its
\* play_count never decreases, it rises by exactly one in a processed cycle
\* that matched the record and wrote its update, and no other step changes
\* it: with no failed store write it counts the processed cycles of its song.
C20_PlayCountCountsMerges ==
    [][ /\ \A i \in 1..Len(channel_coll') :
              /\ 1 <= Len(channel_coll'[i].datetime)
              /\ Len(channel_coll'[i].datetime) <= channel_coll'[i].play_count
        /\ cycle'.path = "update" =>
              cycle'.new_doc.play_count = cycle'.existing_doc.play_count + 1
        /\ cycle'.path = "insert" => cycle'.new_doc.play_count = 1
        /\ \A i \in 1..Len(channel_coll') :
              IF i > Len(channel_coll)
              THEN channel_coll'[i].play_count = 1
              ELSE channel_coll'[i].play_count =
                      channel_coll[i].play_count
                        + ( IF /\ Processed(cycle')
                               /\ cycle'.ops # <<>>
                               /\ i \in SameSong(channel_coll, cycle'.data)
                            THEN 1 ELSE 0 )
      ]_vars

\* a record played three times at two start times
C20_Witness ==
    /\ cycle.path = "update"
    /\ cycle.ops # <<>>
    /\ WrittenRecord.play_count = 3
    /\ Len(WrittenRecord.datetime) = 2
    /\ Timed(WrittenRecord)

\* the pointer documents of a channel in the last_played collection
PointersOf(coll, channel) ==
    { coll[i] : i \in { n \in 1..Len(coll) : coll[n]._id = <<"channel", channel>> } }

\* the store holds for an instance what the instance's own cycles left: no
\* document of its channel while it has cached none, else the pointer
\* document it cached and, in its history, a record of the cached song with
\* the cached datetime, channels and play_count (between the history write
\* and the pointer write of a cycle the pointer is the one of the cycle
\* before)
OwnPartition(channel, cache, c, history, pointers) ==
    IF cache = NoDoc
    THEN history = <<>> /\ pointers = {}
    ELSE /\ c.path # "written" =>
              pointers = { [cache EXCEPT !._id = <<"channel", channel>>] }
         /\ \E i \in 1..Len(history) :
              /\ FoldCase(history[i].artist.name) = FoldCase(cache.artist.name)
              /\ FoldCase(history[i].song.name) = FoldCase(cache.song.name)
              /\ history[i].datetime = cache.datetime
              /\ history[i].channels = cache.channels
              /\ history[i].play_count = cache.play_count

\* C14: while two instances for different channels run their cycles in any
\* interleaving of their store calls, a step of one instance leaves the
\* pointer documents of every other channel and the history collections of
\* every other channel as they were, and the history collection, the pointer
\* document and the pointer cache of each channel are at every moment what
\* the cycles of that channel's own instance left.
C14_ChannelIsolation ==
    [][ etls[1].pss_channel # pss_channel =>
          /\ pss_channel' = pss_channel =>
                /\ \A c \in Channels \ {pss_channel} :
                      PointersOf(last_played_coll', c)
                          = PointersOf(last_played_coll, c)
                /\ collections' = collections
                /\ etls' = etls
          /\ OwnPartition(pss_channel', last_played', cycle', channel_coll',
                          PointersOf(last_played_coll', pss_channel'))
          /\ OwnPartition(etls'[1].pss_channel, etls'[1].last_played,
                          etls'[1].cycle,
                          collections'[collection_name(etls'[1].pss_channel)],
                          PointersOf(last_played_coll', etls'[1].pss_channel))
      ]_vars

\* the same song loaded on two channels, twice on one and once on the other
C14_Witness ==
    /\ etls[1].pss_channel # pss_channel
    /\ cycle.path = "update"
    /\ etls[1].cycle.path = "insert"
    /\ Len(channel_coll) = 1
    /\ channel_coll[1].play_count = 2
    /\ Len(collections[collection_name(etls[1].pss_channel)]) = 1
    /\ collections[collection_name(etls[1].pss_channel)][1].play_count = 1
    /\ Cardinality(PointersOf(last_played_coll, pss_channel)) = 1
    /\ Cardinality(PointersOf(last_played_coll, etls[1].pss_channel)) = 1
    /\ FoldCase(etls[1].last_played.artist.name)
          = FoldCase(last_played.artist.name)

\* C15: while two instances for the same channel interleave their store
\* calls, the find of a cycle returns the first stored record of the
\* snapshot's song, or none; a history write of a cycle whose find is still
\* what the store holds (no record of the song, or the record with the
\* play_count found) adds the only record of the song or raises the stored
\* play_count by one; a history write of a cycle whose find another cycle's
\* write has made stale adds a second record for the same artist and song,
\* or sets the play_count to one above the count it found and not to one
\* above the stored count, so that the raise of the other cycle is lost; and
\* a find is made stale only by an instance for the same channel.
C15_RaceOnStaleFind ==
    [][ /\ ( etls' = etls /\ cycle.path # "found" /\ cycle'.path = "found" ) =>
            LET hits == SameSong(channel_coll, cycle'.data)
            IN cycle'.existing_doc =
                  IF hits = {} THEN NoDoc
                  ELSE channel_coll[CHOOSE n \in hits : \A m \in hits : n <= m]
        /\ ( etls' = etls /\ cycle.path = "found" /\ cycle'.path = "written" ) =>
            LET hits == SameSong(channel_coll, cycle.data)
                i == CHOOSE n \in hits : \A m \in hits : n <= m
                fresh == IF cycle.existing_doc = NoDoc THEN hits = {}
                         ELSE channel_coll[i].play_count
                                = cycle.existing_doc.play_count
            IN /\ ( fresh /\ hits = {} ) =>
                    /\ Len(channel_coll') = Len(channel_coll) + 1
                    /\ SameSong(channel_coll', cycle.data) = {Len(channel_coll')}
               /\ ( fresh /\ hits # {} ) =>
                    /\ Len(channel_coll') = Len(channel_coll)
                    /\ channel_coll'[i].play_count
                          = channel_coll[i].play_count + 1
               /\ ( ~fresh /\ cycle.existing_doc = NoDoc ) =>
                    Cardinality(SameSong(channel_coll', cycle.data)) >= 2
               /\ ( ~fresh /\ cycle.existing_doc # NoDoc ) =>
                    /\ channel_coll'[i].play_count
                          = cycle.existing_doc.play_count + 1
                    /\ channel_coll'[i].play_count
                          # channel_coll[i].play_count + 1
               /\ ~fresh => etls[1].pss_channel = pss_channel
      ]_vars

\* two records for one song, and two completed updates of the first of them
\* that raised its play_count from 1 to 2
C15_Witness ==
    /\ etls[1].pss_channel = pss_channel
    /\ cycle.path = "update"
    /\ etls[1].cycle.path = "update"
    /\ Len(channel_coll) = 2
    /\ SameSong(channel_coll, cycle.data) = {1, 2}
    /\ cycle.existing_doc = etls[1].cycle.existing_doc
    /\ cycle.existing_doc.play_count = 1
    /\ cycle.existing_doc._id = channel_coll[1]._id
    /\ channel_coll[1].play_count = 2

====
